---- MODULE Spec2Model ----
(***************************************************************************)
(* vacuum-table: a backup tool for a remote tabular-data service.          *)
(*                                                                         *)
(* The module models the parts of the program, each under its own          *)
(* specification:                                                          *)
(*   SpecExtract   ExtractAllTables (src/main.go), one goroutine per       *)
(*                 source, an error channel, a shared result map           *)
(*   SpecList      Clerk.ListRecordsPage / Clerk.ListRecordsAll            *)
(*                 (src/api/api.go), the pagination loop                   *)
(*   SpecDownload  DownloadAttachments / DownloadAttachment (src/main.go), *)
(*                 the file-by-file attachment download                    *)
(*   SpecId        api.IsAirTableId (src/api/api.go) over its arguments    *)
(*   SpecAttach    ExtractAttachments / ExtractAttachment (src/main.go)    *)
(*   SpecMain      Main and Backup.Save (src/main.go): the stages in turn  *)
(***************************************************************************)
EXTENDS Integers, Sequences, FiniteSets, TLC

VARIABLES
    \* ---- ExtractAllTables ----
    config,      \* config.Tables: source -> sequence of table identifiers
    cpc,         \* position of the coordinator (the calling goroutine)
    wpc,         \* position of each worker goroutine
    widx,        \* index of the table a worker is at (range loop, line 323)
    wrecs,       \* the records a worker's last ListRecordsAll returned
    wg,          \* sync.WaitGroup counter
    errChan,     \* buffered channel of errors, capacity len(config.Tables)
    chanClosed,  \* close(errChan) has run
    outputMap,   \* the shared map table -> records
    mapWriters,  \* workers in the middle of a map assignment (line 334)
    raced,       \* workers whose current assignment overlaps another one
    allErrors,   \* multierror accumulated by the coordinator
    ret,         \* what ExtractAllTables returned
    crashed,     \* the runtime aborted the process
    fetchLog,    \* history: per worker, the (table, outcome) of every fetch
    keyWriters,  \* history: per table, the workers that assigned its key
    \* ---- Clerk.ListRecordsAll / Clerk.ListRecordsPage ----
    clerk,       \* the Clerk: BearerToken and App
    ltable,      \* the table argument of ListRecordsAll
    lpc,         \* "loop" while ListRecordsAll runs, "returned" after
    lrecords,    \* var records []Record
    loffset,     \* var offset string
    lret,        \* what ListRecordsAll returned
    pageCalls,   \* history: every ListRecordsPage call and its result
    \* ---- DownloadAttachments / DownloadAttachment ----
    atts,        \* the attachments slice (sorted in place by the run)
    dirKind,     \* what downloadDir is: "dir", "file" or "missing"
    files,       \* the files of downloadDir: name -> size in bytes
    initFiles,   \* the files of downloadDir when the run started
    dpc,         \* position of the run
    di,          \* index of the attachment the loop is at (1-based)
    resp,        \* the response of client.Get: its body's length and fate
    copied,      \* bytes io.Copy has moved so far
    outOpen,     \* the temp file's handle is open
    needsClose,  \* DownloadAttachment's local needsClose
    needsRemove, \* DownloadAttachment's local needsRemove
    errOut,      \* DownloadAttachment's named result (nil is <<>>)
    dret,        \* what DownloadAttachments returned
    ops,         \* history: network requests and file operations of the run
    statLog,     \* history: per loop index, what os.Stat of the file said
    produced,    \* history: the renames into place and what they moved
    run,         \* which run over the same list this is: 1, or 2 for a rerun
    prevOps,     \* history: the operations of the run before the rerun
    \* ---- api.IsAirTableId ----
    idArg,       \* the string IsAirTableId is called with
    idRes,       \* whether the call has returned, and what
    \* ---- ExtractAttachments / ExtractAttachment ----
    xpc,         \* position of the scan: "scan", "done" or "panicked"
    xn,          \* how many elements the scan has looked at
    xlast,       \* the element the scan looked at last
    xatts,       \* the attachments slice built so far
    \* ---- Main and Backup.Save ----
    mpc,         \* position of Main
    mret,        \* what Main returned
    mitems,      \* the elements of the sequence-valued fields of the tables
    backup,      \* backup.Attachments
    outFile,     \* what is at outputPath
    prior,       \* what was at outputPath when Main started
    sret,        \* what Backup.Save returned, and why
    mlog         \* history: the stages Main entered and the calls of Save

evars == <<config, cpc, wpc, widx, wrecs, wg, errChan, chanClosed, outputMap,
           mapWriters, raced, allErrors, ret, crashed, fetchLog, keyWriters>>

lvars == <<clerk, ltable, lpc, lrecords, loffset, lret, pageCalls>>

dvars == <<atts, dirKind, files, initFiles, dpc, di, resp, copied, outOpen,
           needsClose, needsRemove, errOut, dret, ops, statLog, produced,
           run, prevOps>>

ivars == <<idArg, idRes>>

xvars == <<xpc, xn, xlast, xatts>>

mvars == <<mpc, mret, mitems, backup, outFile, prior, sret, mlog>>

vars == <<evars, lvars, dvars, ivars, xvars, mvars>>

\* what an action of one part leaves alone
notExtract == <<lvars, dvars, ivars, xvars, mvars>>
notList == <<evars, dvars, ivars, xvars, mvars>>
notDownload == <<evars, lvars, ivars, xvars, mvars>>
notId == <<evars, lvars, dvars, xvars, mvars>>
notAttach == <<evars, lvars, dvars, ivars, mvars>>

(***************************************************************************)
(* Bounds                                                                  *)
(***************************************************************************)
MaxSources == 2
MaxTotalTables == 3
MaxPages == 3
MaxPageRecs == 2
MaxAtt == 2
MaxSize == 2
MaxIdLen == 18
MaxItems == 2

TablePool == {"tblX", "tblY"}

(***************************************************************************)
(* Helpers                                                                 *)
(***************************************************************************)
EmptyMap == [k \in {} |-> <<>>]

MapPut(m, k, v) == [x \in (DOMAIN m) \cup {k} |-> IF x = k THEN v ELSE m[x]]

Workers == DOMAIN config

\* The record list ListRecordsAll returns for table t of source s when it
\* succeeds, and the error it returns when it fails.
RecordsOf(s, t) == <<s, t>>
ErrorOf(s, t) == [src |-> s, table |-> t]

\* The configurations explored: up to MaxSources sources, each with a list of
\* tables (possibly empty, possibly naming a table another source names
\* too), MaxTotalTables tables in all.
TableLists == UNION {[1..k -> TablePool] : k \in 0..MaxTotalTables}
RECURSIVE TotalTables(_, _)
TotalTables(c, n) == IF n = 0 THEN 0 ELSE Len(c[n]) + TotalTables(c, n - 1)
Configs == UNION {{c \in [1..n -> TableLists] : TotalTables(c, n) <= MaxTotalTables} :
                  n \in 0..MaxSources}

(***************************************************************************)
(* ExtractAllTables                                                        *)
(***************************************************************************)
\* ExtractAllTables is not running
IdleExtract ==
    /\ config = <<>> /\ cpc = "idle" /\ wpc = <<>> /\ widx = <<>> /\ wrecs = <<>>
    /\ wg = 0 /\ errChan = <<>> /\ chanClosed = FALSE /\ outputMap = EmptyMap
    /\ mapWriters = {} /\ raced = {} /\ allErrors = <<>>
    /\ ret = [returned |-> FALSE, mapNil |-> TRUE, map |-> EmptyMap, err |-> <<>>]
    /\ crashed = FALSE /\ fetchLog = <<>> /\ keyWriters = [t \in TablePool |-> {}]

\* ListRecordsAll is not running
IdleList ==
    /\ clerk = [token |-> <<>>, app |-> <<>>] /\ ltable = <<>> /\ lpc = "idle"
    /\ lrecords = <<>> /\ loffset = <<>>
    /\ lret = [records |-> <<>>, err |-> [kind |-> "nil", detail |-> <<>>]]
    /\ pageCalls = <<>>

\* DownloadAttachments is not running
IdleDownload ==
    /\ atts = <<>> /\ dirKind = "dir" /\ files = EmptyMap /\ initFiles = EmptyMap
    /\ dpc = "idle" /\ di = 0 /\ resp = [total |-> 0, breaks |-> FALSE]
    /\ copied = 0 /\ outOpen = FALSE /\ needsClose = FALSE /\ needsRemove = FALSE
    /\ errOut = <<>> /\ dret = [returned |-> FALSE, err |-> <<>>, from |-> "none"]
    /\ ops = <<>> /\ statLog = <<>> /\ produced = {}
    /\ run = 1 /\ prevOps = <<>>

\* a value of a decoded JSON object's key: missing, a string, a number (a
\* float64, kept as a count of halves) or anything else
Absent == [kind |-> "absent", str |-> <<>>, half |-> 0]
Str(s) == [kind |-> "string", str |-> s, half |-> 0]
Num(h) == [kind |-> "number", str |-> <<>>, half |-> h]
Other == [kind |-> "other", str |-> <<>>, half |-> 0]

\* an element that is not a JSON object
NotAMap == [isMap |-> FALSE, url |-> Absent, id |-> Absent, size |-> Absent]

\* IsAirTableId is not running
IdleId == idArg = <<>> /\ idRes = [done |-> FALSE, ok |-> FALSE]

\* ExtractAttachments is not running
IdleAttach == xpc = "idle" /\ xn = 0 /\ xlast = NotAMap /\ xatts = <<>>

\* Main is not running
IdleMain ==
    /\ mpc = "idle" /\ mret = [returned |-> FALSE, err |-> <<>>]
    /\ mitems = <<>> /\ backup = <<>> /\ outFile = "absent" /\ prior = "absent"
    /\ sret = [returned |-> FALSE, err |-> <<>>] /\ mlog = <<>>

InitExtract ==
    /\ IdleList /\ IdleDownload /\ IdleId /\ IdleAttach /\ IdleMain
    /\ config \in Configs
    /\ cpc = "spawn"
    /\ wpc = [w \in Workers |-> "idle"]
    /\ widx = [w \in Workers |-> 1]
    /\ wrecs = [w \in Workers |-> <<>>]
    /\ wg = 0
    /\ errChan = <<>>
    /\ chanClosed = FALSE
    /\ outputMap = EmptyMap
    /\ mapWriters = {}
    /\ raced = {}
    /\ allErrors = <<>>
    /\ ret = [returned |-> FALSE, mapNil |-> TRUE, map |-> EmptyMap, err |-> <<>>]
    /\ crashed = FALSE
    /\ fetchLog = [w \in Workers |-> <<>>]
    /\ keyWriters = [t \in TablePool |-> {}]

\* make(chan error, len(config.Tables))
ChanCap == Cardinality(Workers)

\* the range loop over a worker's tables (line 323): where it goes next
LoopHead(w, i) == IF i <= Len(config[w]) THEN "fetch" ELSE "wgdone"

\* wg.Add(1); go func(app, tables) {...}(app, tables)
\* (map iteration order is unspecified: any source not yet started)
Spawn(w) ==
    /\ ~crashed /\ cpc = "spawn" /\ wpc[w] = "idle"
    /\ wg' = wg + 1
    /\ wpc' = [wpc EXCEPT ![w] = LoopHead(w, 1)]
    /\ UNCHANGED <<config, cpc, widx, wrecs, errChan, chanClosed, outputMap,
                   mapWriters, raced, allErrors, ret, crashed, fetchLog, keyWriters, notExtract>>

\* records, err := clerk.ListRecordsAll(table)
Fetch(w) ==
    /\ ~crashed /\ wpc[w] = "fetch"
    /\ LET t == config[w][widx[w]] IN
       \E ok \in BOOLEAN :
          /\ fetchLog' = [fetchLog EXCEPT ![w] = Append(@, [table |-> t, ok |-> ok])]
          /\ IF ok
             THEN /\ wrecs' = [wrecs EXCEPT ![w] = RecordsOf(w, t)]
                  /\ wpc' = [wpc EXCEPT ![w] = "assign"]
             ELSE /\ wrecs' = wrecs
                  /\ wpc' = [wpc EXCEPT ![w] = "send"]
    /\ UNCHANGED <<config, cpc, widx, wg, errChan, chanClosed, outputMap,
                   mapWriters, raced, allErrors, ret, crashed, keyWriters, notExtract>>

\* (mutant) the worker goes on with its next table after an error
OnError_Continue(w) == [pc |-> LoopHead(w, widx[w] + 1), idx |-> widx[w] + 1]

\* what the worker does after reporting an error: break (line 328)
OnError(w) == [pc |-> "wgdone", idx |-> widx[w]]

\* a send on a buffered channel proceeds only while the buffer has room
CanSend == Len(errChan) < ChanCap

\* errChan <- err; break
SendErr(w) ==
    /\ ~crashed /\ wpc[w] = "send"
    /\ CanSend
    /\ errChan' = Append(errChan, ErrorOf(w, config[w][widx[w]]))
    /\ wpc' = [wpc EXCEPT ![w] = OnError(w).pc]
    /\ widx' = [widx EXCEPT ![w] = OnError(w).idx]
    /\ UNCHANGED <<config, cpc, wrecs, wg, chanClosed, outputMap,
                   mapWriters, raced, allErrors, ret, crashed, fetchLog, keyWriters, notExtract>>

\* outputMap[table] = records, first half: the goroutine enters the map
\* assignment.  The map is shared and no lock is held, so another worker
\* may be inside an assignment of its own.
MapAssignBegin(w) ==
    /\ ~crashed /\ wpc[w] = "assign"
    /\ mapWriters' = mapWriters \cup {w}
    /\ raced' = IF mapWriters # {} THEN raced \cup mapWriters \cup {w} ELSE raced
    /\ wpc' = [wpc EXCEPT ![w] = "assigning"]
    /\ UNCHANGED <<config, cpc, widx, wrecs, wg, errChan, chanClosed, outputMap,
                   allErrors, ret, crashed, fetchLog, keyWriters, notExtract>>

\* The outcomes of one map assignment.  Alone in the map, the entry is
\* stored.  Overlapping another goroutine's assignment is a data race on the
\* map: the entry is stored, or it is lost, or the runtime detects the
\* concurrent write and aborts the process.
AssignOutcomes(w) == IF w \in raced THEN {"stored", "lost", "fatal"} ELSE {"stored"}

\* outputMap[table] = records, second half, and the loop's next iteration
MapAssignEnd(w) ==
    /\ ~crashed /\ wpc[w] = "assigning"
    /\ LET t == config[w][widx[w]] IN
       \E o \in AssignOutcomes(w) :
          /\ outputMap' = IF o = "stored" THEN MapPut(outputMap, t, wrecs[w]) ELSE outputMap
          /\ crashed' = (o = "fatal")
          /\ keyWriters' = [keyWriters EXCEPT ![t] = @ \cup {w}]
    /\ mapWriters' = mapWriters \ {w}
    /\ raced' = raced \ {w}
    /\ widx' = [widx EXCEPT ![w] = @ + 1]
    /\ wpc' = [wpc EXCEPT ![w] = LoopHead(w, widx[w] + 1)]
    /\ UNCHANGED <<config, cpc, wrecs, wg, errChan, chanClosed,
                   allErrors, ret, fetchLog, notExtract>>

\* wg.Done()
WgDone(w) ==
    /\ ~crashed /\ wpc[w] = "wgdone"
    /\ wg' = wg - 1
    /\ wpc' = [wpc EXCEPT ![w] = "finished"]
    /\ UNCHANGED <<config, cpc, widx, wrecs, errChan, chanClosed, outputMap,
                   mapWriters, raced, allErrors, ret, crashed, fetchLog, keyWriters, notExtract>>

\* the range loop over config.Tables has started every worker
SpawnDone ==
    /\ ~crashed /\ cpc = "spawn"
    /\ \A w \in Workers : wpc[w] # "idle"
    /\ cpc' = "wait"
    /\ UNCHANGED <<config, wpc, widx, wrecs, wg, errChan, chanClosed, outputMap,
                   mapWriters, raced, allErrors, ret, crashed, fetchLog, keyWriters, notExtract>>

\* (mutant) the coordinator does not wait for the workers
WaitReady_NoJoin == TRUE

\* wg.Wait() returns when the counter is zero
WaitReady == wg = 0

\* wg.Wait(); close(errChan)
WaitAndClose ==
    /\ ~crashed /\ cpc = "wait"
    /\ WaitReady
    /\ chanClosed' = TRUE
    /\ cpc' = "drain"
    /\ UNCHANGED <<config, wpc, widx, wrecs, wg, errChan, outputMap,
                   mapWriters, raced, allErrors, ret, crashed, fetchLog, keyWriters, notExtract>>

\* (mutant) the latest error replaces the ones collected so far
AppendError_Overwrite(all, e) == <<e>>

\* multierror.Append(allErrors, err)
AppendError(all, e) == Append(all, e)

\* for err := range errChan { allErrors = multierror.Append(allErrors, err) }
Drain ==
    /\ ~crashed /\ cpc = "drain"
    /\ errChan # <<>>
    /\ allErrors' = AppendError(allErrors, Head(errChan))
    /\ errChan' = Tail(errChan)
    /\ UNCHANGED <<config, cpc, wpc, widx, wrecs, wg, chanClosed, outputMap,
                   mapWriters, raced, ret, crashed, fetchLog, keyWriters, notExtract>>

\* if allErrors != nil { return nil, allErrors }; return outputMap, nil
ReturnValue ==
    IF allErrors # <<>>
    THEN [returned |-> TRUE, mapNil |-> TRUE, map |-> EmptyMap, err |-> allErrors]
    ELSE [returned |-> TRUE, mapNil |-> FALSE, map |-> outputMap, err |-> <<>>]

\* the range over the closed channel ends when it is empty; then return
Return ==
    /\ ~crashed /\ cpc = "drain"
    /\ errChan = <<>> /\ chanClosed
    /\ ret' = ReturnValue
    /\ cpc' = "done"
    /\ UNCHANGED <<config, wpc, widx, wrecs, wg, errChan, chanClosed, outputMap,
                   mapWriters, raced, allErrors, crashed, fetchLog, keyWriters, notExtract>>

NextExtract ==
    \/ \E w \in Workers : Spawn(w)
    \/ \E w \in Workers : Fetch(w)
    \/ \E w \in Workers : SendErr(w)
    \/ \E w \in Workers : MapAssignBegin(w)
    \/ \E w \in Workers : MapAssignEnd(w)
    \/ \E w \in Workers : WgDone(w)
    \/ SpawnDone
    \/ WaitAndClose
    \/ Drain
    \/ Return

SpecExtract == InitExtract /\ [][NextExtract]_vars

(***************************************************************************)
(* Strings are sequences of byte values.                                   *)
(***************************************************************************)
Fill(c, n) == [i \in 1..n |-> c]

\* strings.HasPrefix
HasPrefix(str, prefix) ==
    Len(str) >= Len(prefix) /\ SubSeq(str, 1, Len(prefix)) = prefix

IdLen == 17

\* (mutant) one range from '0' to 'z'
IsAlnum_OneRange(c) == 48 <= c /\ c <= 122

\* '0' <= c <= '9', 'a' <= c <= 'z', 'A' <= c <= 'Z'
IsAlnum(c) ==
    \/ (48 <= c /\ c <= 57)
    \/ (97 <= c /\ c <= 122)
    \/ (65 <= c /\ c <= 90)

\* (mutant) only the length is checked
IsAirTableId_LengthOnly(name) == Len(name) = IdLen

\* api.IsAirTableId
IsAirTableId(name) ==
    /\ Len(name) = IdLen
    /\ \A i \in 1..Len(name) : IsAlnum(name[i])

StrKey == <<107, 101, 121>>                      \* "key"
StrApp == <<97, 112, 112>>                       \* "app"
StrTbl == <<116, 98, 108>>                       \* "tbl"
StrOffsetParam == <<63, 111, 102, 102, 115, 101, 116, 61>>   \* "?offset="
\* "https://api.airtable.com/v0/"
StrApiRoot == <<104, 116, 116, 112, 115, 58, 47, 47, 97, 112, 105, 46, 97, 105,
                114, 116, 97, 98, 108, 101, 46, 99, 111, 109, 47, 118, 48, 47>>

\* bearer tokens: well-formed; no "key" prefix; too short; a space inside
TokenPool == { StrKey \o Fill(65, 14), StrApp \o Fill(65, 14),
               StrKey \o Fill(65, 13), StrKey \o Fill(65, 13) \o <<32>> }
\* source identifiers: well-formed; a path separator inside; too short
AppPool == { StrApp \o Fill(66, 14), StrApp \o Fill(66, 13) \o <<47>>, StrApp }
\* table identifiers: well-formed; punctuation inside; too long
TableIdPool == { StrTbl \o Fill(67, 14), StrTbl \o Fill(67, 13) \o <<94>>,
                 StrTbl \o Fill(67, 15) }
\* continuation tokens a server may send: none, "itr/rec", "itr\n"
OffsetPool == { <<>>, <<105, 116, 114, 47, 114, 101, 99>>, <<105, 116, 114, 10>> }
StatusPool == {200, 201, 404, 500}

(***************************************************************************)
(* Clerk.ListRecordsPage                                                   *)
(***************************************************************************)
NoError == [kind |-> "nil", detail |-> <<>>]
NoReply == [records |-> <<>>, offset |-> <<>>]

\* "https://api.airtable.com/v0/"+c.App+"/"+table+suffix
RequestUrl(app, table, offset) ==
    StrApiRoot \o app \o <<47>> \o table \o
        (IF offset # <<>> THEN StrOffsetParam \o offset ELSE <<>>)

\* http.NewRequest parses the URL and refuses one that holds an ASCII
\* control character; the method and the host are fixed and well-formed.
NewRequestFails(url) == \E i \in 1..Len(url) : url[i] < 32 \/ url[i] = 127

\* What the network does with one request: the transport fails, or a
\* response arrives with a status and a body that decodes or does not.
\* The records of page k are <<k, 1>>, <<k, 2>>, ...; a server sends a
\* further continuation token for at most MaxPages pages.
NetOutcomes(k) ==
    {[kind |-> "transport", status |-> 0, decodes |-> FALSE, reply |-> NoReply]}
    \cup {[kind |-> "response", status |-> st, decodes |-> FALSE, reply |-> NoReply] :
             st \in StatusPool}
    \cup {[kind |-> "response", status |-> st, decodes |-> TRUE,
           reply |-> [records |-> [i \in 1..n |-> <<k, i>>], offset |-> off]] :
             st \in StatusPool, n \in 0..MaxPageRecs,
             off \in {o \in OffsetPool : o = <<>> \/ k < MaxPages}}

\* the three shape checks made before any request (lines 52-60)
ShapeError(c, table) ==
    IF ~HasPrefix(c.token, StrKey) \/ ~IsAirTableId(c.token)
    THEN [kind |-> "invalid API key", detail |-> <<>>]
    ELSE IF ~IsAirTableId(c.app)
    THEN [kind |-> "not a valid app ID", detail |-> c.app]
    ELSE IF ~IsAirTableId(table)
    THEN [kind |-> "not a valid table ID", detail |-> table]
    ELSE NoError

\* (mutant) every 2xx status is taken as success
StatusOk_Any2xx(status) == 200 <= status /\ status <= 299

\* does a response status let the call go on to decode the body? (line 77)
StatusOk(status) == status = 200

\* ListRecordsPage(table, offset) when the network answers net:
\* the error, the reply and the requests handed to c.Client.Do
ListRecordsPage(c, table, offset, net) ==
    LET url == RequestUrl(c.app, table, offset) IN
    IF ShapeError(c, table) # NoError
    THEN [err |-> ShapeError(c, table), reply |-> NoReply, requests |-> <<>>]
    ELSE IF NewRequestFails(url)
    THEN [err |-> [kind |-> "invalid URL", detail |-> url], reply |-> NoReply,
          requests |-> <<>>]
    ELSE LET req == [url |-> url, bearer |-> c.token] IN
         IF net.kind = "transport"
         THEN [err |-> [kind |-> "transport", detail |-> <<>>], reply |-> NoReply,
               requests |-> <<req>>]
         ELSE IF ~StatusOk(net.status)
         THEN [err |-> [kind |-> "status code was not 200", detail |-> <<net.status>>],
               reply |-> NoReply, requests |-> <<req>>]
         ELSE IF ~net.decodes
         THEN [err |-> [kind |-> "decode", detail |-> <<>>], reply |-> NoReply,
               requests |-> <<req>>]
         ELSE [err |-> NoError, reply |-> net.reply, requests |-> <<req>>]

(***************************************************************************)
(* Clerk.ListRecordsAll                                                    *)
(***************************************************************************)
InitList ==
    /\ IdleExtract /\ IdleDownload /\ IdleId /\ IdleAttach /\ IdleMain
    /\ clerk \in [token : TokenPool, app : AppPool]
    /\ ltable \in TableIdPool
    /\ lpc = "loop"
    /\ lrecords = <<>>
    /\ loffset = <<>>
    /\ lret = [records |-> <<>>, err |-> NoError]
    /\ pageCalls = <<>>

\* (mutant) the records gathered so far are returned with the error
OnPageError_KeepRecords(recs, err) == [records |-> recs, err |-> err]

\* return nil, err
OnPageError(recs, err) == [records |-> <<>>, err |-> err]

\* One iteration of the loop of ListRecordsAll: the ListRecordsPage call and
\* what the loop does with its result.
ListStep ==
    /\ lpc = "loop"
    /\ \E net \in NetOutcomes(Len(pageCalls) + 1) :
          LET res == ListRecordsPage(clerk, ltable, loffset, net)
              recs == lrecords \o res.reply.records IN
          /\ pageCalls' = Append(pageCalls, [offset |-> loffset, net |-> net, res |-> res])
          /\ IF res.err # NoError
             THEN /\ lret' = OnPageError(lrecords, res.err)
                  /\ lpc' = "returned"
                  /\ UNCHANGED <<lrecords, loffset>>
             ELSE IF res.reply.offset = <<>>
             THEN /\ lret' = [records |-> recs, err |-> NoError]
                  /\ lrecords' = recs
                  /\ lpc' = "returned"
                  /\ UNCHANGED loffset
             ELSE /\ lrecords' = recs
                  /\ loffset' = res.reply.offset
                  /\ UNCHANGED <<lret, lpc>>
    /\ UNCHANGED <<clerk, ltable, notList>>

NextList == ListStep

SpecList == InitList /\ [][NextList]_vars

(***************************************************************************)
(* DownloadAttachments and DownloadAttachment                              *)
(***************************************************************************)
StrAtt == <<97, 116, 116>>                       \* "att"
StrTempDot == <<84, 69, 77, 80, 46>>             \* "TEMP."

\* attachment identifiers: "attAAAAAAAAAAAAA1", "attAAAAAAAAAAAAA2"
AttIdPool == { StrAtt \o Fill(65, 13) \o <<49>>, StrAtt \o Fill(65, 13) \o <<50>> }

\* type Attachment: Id and Size (Link is the URL client.Get is given)
Attachments == [id : AttIdPool, size : 0..MaxSize]
AttLists == UNION {[1..n -> Attachments] : n \in 0..MaxAtt}

\* path.Join(outputDir, outputFilename), path.Join(outputDir, "TEMP."+outputFilename)
FinalName(id) == id
\* (mutant) the download is written straight to the final name
TempName_Final(id) == id

TempName(id) == StrTempDot \o id

\* s < t on Go strings: bytewise lexicographic
RECURSIVE StrLess(_, _)
StrLess(a, b) ==
    IF b = <<>> THEN FALSE
    ELSE IF a = <<>> THEN TRUE
    ELSE IF a[1] # b[1] THEN a[1] < b[1]
    ELSE StrLess(Tail(a), Tail(b))

\* sort.Slice(attachments, less by Id): some reordering of the slice with
\* no element before one of a smaller Id (the sort is not stable)
SortResults(l) ==
    { r \in { [i \in 1..Len(l) |-> l[p[i]]] : p \in Permutations(1..Len(l)) } :
        \A i \in 1..(Len(l) - 1) : ~StrLess(r[i + 1].id, r[i].id) }

\* The directories a run may find: for each identifier, no file or a file
\* of some size at the final name, and possibly a stale temp file that an
\* interrupted earlier run left.
DirListings ==
    { [name \in {FinalName(id) : id \in {x \in AttIdPool : f[x] >= 0}}
                \cup {TempName(id) : id \in {x \in AttIdPool : t[x] >= 0}} |->
          IF name \in AttIdPool THEN f[name] ELSE t[SubSeq(name, 6, Len(name))]] :
      f \in [AttIdPool -> -1..MaxSize], t \in [AttIdPool -> {-1, 1}] }

MapRemove(m, k) == [x \in (DOMAIN m) \ {k} |-> m[x]]

InitDownload ==
    /\ IdleExtract /\ IdleList /\ IdleId /\ IdleAttach /\ IdleMain
    /\ atts \in AttLists
    /\ dirKind \in {"dir", "file", "missing"}
    /\ files \in DirListings
    /\ dirKind # "dir" => files = EmptyMap
    /\ initFiles = files
    /\ dpc = "start"
    /\ di = 0
    /\ resp = [total |-> 0, breaks |-> FALSE]
    /\ copied = 0
    /\ outOpen = FALSE /\ needsClose = FALSE /\ needsRemove = FALSE
    /\ errOut = <<>>
    /\ dret = [returned |-> FALSE, err |-> <<>>, from |-> "none"]
    /\ ops = <<>>
    /\ statLog = <<>>
    /\ produced = {}
    /\ run = 1
    /\ prevOps = <<>>

Returned(e, where) == [returned |-> TRUE, err |-> e, from |-> where]

\* os.Stat(downloadDir), the IsDir check and sort.Slice (lines 453-460)
D_Start ==
    /\ dpc = "start"
    /\ IF dirKind = "missing"
       THEN /\ dret' = Returned(<<"stat downloadDir">>, "dir")
            /\ dpc' = "done"
            /\ UNCHANGED <<atts, di>>
       ELSE IF dirKind = "file"
       THEN /\ dret' = Returned(<<"download directory is not a directory">>, "dir")
            /\ dpc' = "done"
            /\ UNCHANGED <<atts, di>>
       ELSE /\ atts' \in SortResults(atts)
            /\ di' = 1
            /\ dpc' = "loop"
            /\ UNCHANGED dret
    /\ UNCHANGED <<dirKind, files, initFiles, resp, copied, outOpen, needsClose,
                   needsRemove, errOut, ops, statLog, produced, run, prevOps, notDownload>>

\* (mutant) os.Stat never finds the file
StatOutcomes_NeverFound(name) == {"notexist", "error"}

\* what os.Stat can say of a name: it exists, it does not, or another error
StatOutcomes(name) ==
    (IF name \in DOMAIN files THEN {"exists"} ELSE {"notexist"}) \cup {"error"}

\* (mutant) an empty file never counts as downloaded
ExistingFileOk_NonEmpty(fsize, a) == fsize = a.size /\ fsize > 0

\* (mutant) a file at least as large as declared counts as downloaded
ExistingFileOk_AtLeast(fsize, a) == fsize >= a.size

\* fi.Size() != attachment.Size is the failure (line 478)
ExistingFileOk(fsize, a) == fsize = a.size

\* One iteration of the loop up to the call of DownloadAttachment: the
\* identifier check, os.Stat of the file and the three branches on it.
D_Loop ==
    /\ dpc = "loop" /\ di <= Len(atts)
    /\ LET a == atts[di]
           name == FinalName(a.id) IN
       IF ~IsAirTableId(a.id)
       THEN /\ dpc' = "panicked"
            /\ UNCHANGED <<di, dret, statLog>>
       ELSE \E st \in StatOutcomes(name) :
               /\ statLog' = Append(statLog,
                      [kind |-> st, size |-> IF st = "exists" THEN files[name] ELSE -1])
               /\ IF st = "notexist"
                  THEN /\ dpc' = "get"
                       /\ UNCHANGED <<di, dret>>
                  ELSE IF st = "error"
                  THEN /\ dret' = Returned(<<"stat">>, "stat")
                       /\ dpc' = "done"
                       /\ UNCHANGED di
                  ELSE IF ~ExistingFileOk(files[name], a)
                  THEN /\ dret' = Returned(<<"invalid size for already-downloaded attachment">>,
                                           "size")
                       /\ dpc' = "done"
                       /\ UNCHANGED di
                  ELSE /\ di' = di + 1
                       /\ UNCHANGED <<dpc, dret>>
    /\ UNCHANGED <<atts, dirKind, files, initFiles, resp, copied, outOpen, needsClose,
                   needsRemove, errOut, ops, produced, run, prevOps, notDownload>>

\* the loop is over: return nil
D_Return ==
    /\ dpc = "loop" /\ di > Len(atts)
    /\ dret' = Returned(<<>>, "end")
    /\ dpc' = "done"
    /\ UNCHANGED <<atts, dirKind, files, initFiles, di, resp, copied, outOpen,
                   needsClose, needsRemove, errOut, ops, statLog, produced, run, prevOps, notDownload>>

\* a mutation of OnDownloadResult: a failed download is passed over and the
\* loop goes on to the next attachment
OnDownloadResult_KeepGoing(result) ==
    [dpc |-> "loop", di |-> di + 1, dret |-> dret]

\* lines 471-474: err := DownloadAttachment(...); if err != nil { return err }
OnDownloadResult(result) ==
    IF result # <<>>
    THEN [dpc |-> "done", di |-> di, dret |-> Returned(result, "download")]
    ELSE [dpc |-> "loop", di |-> di + 1, dret |-> dret]

Op(kind, name) == [idx |-> di, op |-> kind, name |-> name]

\* resp, err := client.Get(attachment.Link).  A response carries a body of
\* some length, which the transport delivers whole or breaks off after.
A_Get ==
    /\ dpc = "get"
    /\ ops' = Append(ops, Op("get", atts[di].id))
    /\ \/ LET after == OnDownloadResult(<<"get">>) IN
          /\ dret' = after.dret
          /\ dpc' = after.dpc
          /\ di' = after.di
          /\ UNCHANGED <<resp, errOut>>
       \/ /\ resp' \in [total : 0..(MaxSize + 1), breaks : BOOLEAN]
          /\ errOut' = <<>>
          /\ dpc' = "create"
          /\ UNCHANGED <<dret, di>>
    /\ UNCHANGED <<atts, dirKind, files, initFiles, copied, outOpen, needsClose,
                   needsRemove, statLog, produced, run, prevOps, notDownload>>

\* output, err := os.Create(tempPath): creates the file or truncates it
A_Create ==
    /\ dpc = "create"
    /\ \/ /\ files' = MapPut(files, TempName(atts[di].id), 0)
          /\ ops' = Append(ops, Op("create", TempName(atts[di].id)))
          /\ outOpen' = TRUE /\ needsClose' = TRUE /\ needsRemove' = TRUE
          /\ copied' = 0
          /\ dpc' = "copy"
          /\ UNCHANGED errOut
       \/ /\ errOut' = <<"create">>
          /\ dpc' = "defer_body"
          /\ UNCHANGED <<files, ops, outOpen, needsClose, needsRemove, copied>>
    /\ UNCHANGED <<atts, dirKind, initFiles, di, resp, dret, statLog, produced,
                   run, prevOps, notDownload>>

\* io.Copy(output, resp.Body) moves the body into the temp file piece by piece
A_CopyChunk ==
    /\ dpc = "copy" /\ copied < resp.total
    /\ files' = [files EXCEPT ![TempName(atts[di].id)] = @ + 1]
    /\ copied' = copied + 1
    /\ ops' = Append(ops, Op("write", TempName(atts[di].id)))
    /\ UNCHANGED <<atts, dirKind, initFiles, dpc, di, resp, outOpen, needsClose,
                   needsRemove, errOut, dret, statLog, produced, run, prevOps, notDownload>>

\* (mutant) a body longer than declared is accepted
SizeMatches_AtLeast(n, a) == n >= a.size

\* size != attachment.Size is the failure (line 437)
SizeMatches(n, a) == n = a.size

\* io.Copy returns: with an error when the transfer broke (a failing write
\* to the temp file ends the same way), else with the byte count, which is
\* compared with the declared size
A_CopyEnd ==
    /\ dpc = "copy" /\ copied = resp.total
    /\ IF resp.breaks
       THEN /\ errOut' = <<"copy">>
            /\ dpc' = "defer_file"
            /\ UNCHANGED needsClose
       ELSE IF ~SizeMatches(copied, atts[di])
       THEN /\ errOut' = <<"mismatch on download">>
            /\ dpc' = "defer_file"
            /\ UNCHANGED needsClose
       ELSE /\ needsClose' = FALSE
            /\ dpc' = "close"
            /\ UNCHANGED errOut
    /\ UNCHANGED <<atts, dirKind, files, initFiles, di, resp, copied, outOpen,
                   needsRemove, dret, ops, statLog, produced, run, prevOps, notDownload>>

\* needsClose = false; output.Close()
A_Close ==
    /\ dpc = "close"
    /\ outOpen' = FALSE
    /\ ops' = Append(ops, Op("close", TempName(atts[di].id)))
    /\ \/ /\ dpc' = "rename"
          /\ UNCHANGED errOut
       \/ /\ errOut' = <<"close">>
          /\ dpc' = "defer_file"
    /\ UNCHANGED <<atts, dirKind, files, initFiles, di, resp, copied, needsClose,
                   needsRemove, dret, statLog, produced, run, prevOps, notDownload>>

\* os.Rename(tempPath, outputPath); needsRemove = false; return nil
A_Rename ==
    /\ dpc = "rename"
    /\ LET id == atts[di].id IN
       \/ /\ files' = MapRemove(MapPut(files, FinalName(id), files[TempName(id)]),
                                TempName(id))
          /\ ops' = Append(ops, Op("rename", FinalName(id)))
          /\ produced' = produced \cup
                {[id |-> id, declared |-> atts[di].size, moved |-> files[TempName(id)],
                  closed |-> ~outOpen]}
          /\ needsRemove' = FALSE
          /\ errOut' = <<>>
       \/ /\ errOut' = <<"rename">>
          /\ UNCHANGED <<files, ops, produced, needsRemove>>
    /\ dpc' = "defer_file"
    /\ UNCHANGED <<atts, dirKind, initFiles, di, resp, copied, outOpen, needsClose,
                   dret, statLog, run, prevOps, notDownload>>

\* the deferred closure of lines 423-434: close the temp file if it is still
\* open, remove it unless it was renamed into place; each may fail
A_DeferFile ==
    /\ dpc = "defer_file"
    /\ LET temp == TempName(atts[di].id) IN
       \E closeOk \in (IF needsClose THEN BOOLEAN ELSE {TRUE}),
          removeOk \in (IF needsRemove THEN BOOLEAN ELSE {TRUE}) :
          /\ outOpen' = IF needsClose THEN FALSE ELSE outOpen
          /\ files' = IF needsRemove /\ removeOk THEN MapRemove(files, temp) ELSE files
          /\ ops' = ops \o (IF needsClose THEN <<Op("close", temp)>> ELSE <<>>)
                        \o (IF needsRemove /\ removeOk THEN <<Op("remove", temp)>> ELSE <<>>)
          /\ errOut' = errOut \o (IF closeOk THEN <<>> ELSE <<"close">>)
                              \o (IF removeOk THEN <<>> ELSE <<"remove">>)
    /\ dpc' = "defer_body"
    /\ UNCHANGED <<atts, dirKind, initFiles, di, resp, copied, needsClose, needsRemove,
                   dret, statLog, produced, run, prevOps, notDownload>>

\* the deferred resp.Body.Close() of lines 411-415, then DownloadAttachment
\* returns errOut and DownloadAttachments returns it when it is not nil
A_DeferBody ==
    /\ dpc = "defer_body"
    /\ \E bodyOk \in BOOLEAN :
          LET result == errOut \o (IF bodyOk THEN <<>> ELSE <<"body close">>)
              after == OnDownloadResult(result) IN
          /\ errOut' = result
          /\ dret' = after.dret
          /\ dpc' = after.dpc
          /\ di' = after.di
    /\ UNCHANGED <<atts, dirKind, files, initFiles, resp, copied, outOpen, needsClose,
                   needsRemove, ops, statLog, produced, run, prevOps, notDownload>>

\* DownloadAttachments is called again over the same list after a run that
\* returned nil; nothing else has touched the directory in between
D_Rerun ==
    /\ dpc = "done" /\ dret.returned /\ dret.err = <<>>
    /\ run = 1
    /\ run' = 2
    /\ prevOps' = ops
    /\ initFiles' = files
    /\ dpc' = "start"
    /\ di' = 0
    /\ dret' = [returned |-> FALSE, err |-> <<>>, from |-> "none"]
    /\ ops' = <<>>
    /\ statLog' = <<>>
    /\ produced' = {}
    /\ UNCHANGED <<atts, dirKind, files, resp, copied, outOpen, needsClose,
                   needsRemove, errOut, notDownload>>

\* the steps of one run of DownloadAttachments
RunDownload ==
    \/ D_Start
    \/ D_Loop
    \/ D_Return
    \/ A_Get
    \/ A_Create
    \/ A_CopyChunk
    \/ A_CopyEnd
    \/ A_Close
    \/ A_Rename
    \/ A_DeferFile
    \/ A_DeferBody

NextDownload ==
    \/ D_Rerun
    \/ RunDownload

SpecDownload == InitDownload /\ [][NextDownload]_vars

(***************************************************************************)
(* Properties of ExtractAllTables                                          *)
(***************************************************************************)
\* a fetch of worker w failed
Failed(w) == \E i \in 1..Len(fetchLog[w]) : ~fetchLog[w][i].ok

\* the errors of worker w that are in the channel or already collected
ErrorsFrom(w) == SelectSeq(errChan \o allErrors, LAMBDA e : e.src = w)

\* worker w went through all its tables, or stopped at its first error
RanToCompletion(w) ==
    LET n == Len(fetchLog[w]) IN
    \/ n = Len(config[w]) /\ ~Failed(w)
    \/ n >= 1 /\ ~fetchLog[w][n].ok

\* C1: ExtractAllTables is all-or-nothing: it returns a nil error with a map
\* holding the complete record list of every configured table, or a non-nil
\* aggregate error with no map; when a worker's fetch failed the success path
\* is never taken.
C1_AllOrNothing ==
    ret.returned =>
        /\ ret.err = <<>> =>
              /\ ~ret.mapNil
              /\ \A w \in Workers : \A i \in 1..Len(config[w]) :
                    /\ config[w][i] \in DOMAIN ret.map
                    /\ ret.map[config[w][i]] = RecordsOf(w, config[w][i])
        /\ ret.err # <<>> => ret.mapNil
        /\ (\E w \in Workers : Failed(w)) => ret.err # <<>> /\ ret.mapNil

\* The half of C1 that the shared map does not touch: the error path is
\* taken exactly when some worker's fetch failed, and it returns no map.
ExtractFailsIffWorkerFailed ==
    ret.returned =>
        ((\E w \in Workers : Failed(w)) <=> (ret.err # <<>> /\ ret.mapNil))

\* C2: every failed source has at least one error of its own in the
\* aggregate error ExtractAllTables returns; on the way there no reported
\* error is dropped or replaced by another worker's.
C2_EveryFailureReported ==
    /\ \A w \in Workers :
          (Failed(w) /\ wpc[w] \in {"wgdone", "finished"}) => Len(ErrorsFrom(w)) >= 1
    /\ ret.returned =>
          \A w \in Workers : Failed(w) => \E i \in 1..Len(ret.err) : ret.err[i].src = w

C2_Witness ==
    /\ ret.returned
    /\ \E w1, w2 \in Workers : w1 # w2 /\ Failed(w1) /\ Failed(w2)
    /\ Len(ret.err) = 2

\* C3: each key of outputMap is assigned by at most one worker.
C3_DisjointKeys == \A t \in TablePool : Cardinality(keyWriters[t]) <= 1

\* C4: the coordinator closes and reads the error channel, reads the map and
\* returns only after every worker has finished; a finished worker went
\* through all its tables or stopped at its own first error, whatever the
\* other workers did; no worker is ever blocked on its send.
C4_JoinBarrier ==
    /\ (cpc \in {"drain", "done"} \/ chanClosed \/ ret.returned) =>
          \A w \in Workers : wpc[w] = "finished"
    /\ \A w \in Workers : wpc[w] = "finished" => RanToCompletion(w)
    /\ \A w \in Workers : wpc[w] = "send" => CanSend

C4_Witness ==
    /\ ret.returned
    /\ \E w1, w2 \in Workers :
          /\ Failed(w1) /\ ~Failed(w2)
          /\ Len(config[w2]) >= 2 /\ Len(fetchLog[w2]) = Len(config[w2])

\* C5: a worker fetches its tables one after the other in configured order;
\* after the first failing fetch it reports exactly that one error and
\* fetches no later table.
C5_StopAtFirstError ==
    \A w \in Workers :
        LET log == fetchLog[w]
            n == Len(log) IN
        /\ n <= Len(config[w])
        /\ \A i \in 1..n : log[i].table = config[w][i]
        /\ \A i \in 1..(n - 1) : log[i].ok
        /\ ~Failed(w) => ErrorsFrom(w) = <<>>
        /\ Failed(w) =>
              IF wpc[w] = "send"
              THEN ErrorsFrom(w) = <<>>
              ELSE ErrorsFrom(w) = <<ErrorOf(w, log[n].table)>>

C5_Witness ==
    \E w \in Workers :
        /\ Len(config[w]) >= 2 /\ wpc[w] = "finished"
        /\ Len(fetchLog[w]) = 1 /\ ~fetchLog[w][1].ok

(***************************************************************************)
(* Properties of ListRecordsAll and ListRecordsPage                        *)
(***************************************************************************)
\* the record lists of the first n pages the server sent, in page order
RECURSIVE ConcatPages(_, _)
ConcatPages(calls, n) ==
    IF n = 0 THEN <<>> ELSE ConcatPages(calls, n - 1) \o calls[n].net.reply.records

\* C6: ListRecordsAll calls ListRecordsPage first with an empty continuation
\* token, then with the token of the previous page, and stops at the first
\* page whose token is empty, returning the concatenation of all pages'
\* records in page order; when a page call fails it returns that error
\* unchanged with no records, and makes no further call.
C6_ListAll ==
    LET n == Len(pageCalls) IN
    /\ n >= 1 => pageCalls[1].offset = <<>>
    /\ \A k \in 2..n :
          /\ pageCalls[k - 1].res.err = NoError
          /\ pageCalls[k - 1].res.reply.offset # <<>>
          /\ pageCalls[k].offset = pageCalls[k - 1].res.reply.offset
    /\ (lpc = "loop" /\ n >= 1) =>
          pageCalls[n].res.err = NoError /\ pageCalls[n].res.reply.offset # <<>>
    /\ lpc = "returned" =>
          /\ n >= 1
          /\ IF pageCalls[n].res.err = NoError
             THEN /\ pageCalls[n].res.reply.offset = <<>>
                  /\ lret.err = NoError
                  /\ lret.records = ConcatPages(pageCalls, n)
             ELSE /\ lret.err = pageCalls[n].res.err
                  /\ lret.records = <<>>

C6_Witness ==
    /\ lpc = "returned" /\ lret.err = NoError
    /\ Len(pageCalls) >= 2
    /\ Len(pageCalls[1].net.reply.records) >= 1
    /\ Len(lret.records) >= 3

\* the bearer token, the source identifier and the table identifier are all
\* well-formed
WellFormed(c, table) ==
    /\ HasPrefix(c.token, StrKey) /\ IsAirTableId(c.token)
    /\ IsAirTableId(c.app)
    /\ IsAirTableId(table)

HasControlByte(str) == \E i \in 1..Len(str) : str[i] < 32 \/ str[i] = 127

NewFinals == {name \in DOMAIN files : name \in AttIdPool /\ name \notin DOMAIN initFiles}

\* C8: a file at downloadDir/<Id> that was absent when the run started
\* either does not exist or holds exactly the declared number of bytes of
\* the attachment downloaded to it; it got there by the rename of a closed
\* temp file whose byte count equalled the declared size; while a transfer
\* is under way its data is in downloadDir/TEMP.<Id> only.
C8_AtomicMaterialization ==
    /\ \A name \in NewFinals :
          \E p \in produced :
              /\ p.id = name /\ files[name] = p.declared
              /\ p.moved = p.declared /\ p.closed
              /\ \E i \in 1..Len(atts) : atts[i].id = name /\ atts[i].size = p.declared
    /\ dpc \in {"copy", "close", "rename"} =>
          /\ FinalName(atts[di].id) \notin DOMAIN files
          /\ files[TempName(atts[di].id)] = copied

C8_Witness ==
    /\ dpc = "copy" /\ copied = 1 /\ atts[di].size = 2
    /\ files[TempName(atts[di].id)] = 1
    /\ \E name \in NewFinals : files[name] = 2

\* DownloadAttachment has returned an error
DownloadFailed == dret.returned /\ dret.from = "download" /\ dret.err # <<>>

\* C9: whenever DownloadAttachment returns an error, no file exists at the
\* final path downloadDir/<Id> and no temp file downloadDir/TEMP.<Id> is
\* left behind.  (A temp file counts as left behind when this call created
\* it and its removal was not itself reported as failed.)
C9_FailureCleanup ==
    DownloadFailed =>
        /\ FinalName(atts[di].id) \notin DOMAIN files
        /\ (TempName(atts[di].id) \in DOMAIN files) =>
              \/ \E k \in 1..Len(dret.err) : dret.err[k] = "remove"
              \/ ~\E k \in 1..Len(ops) :
                     ops[k] = [idx |-> di, op |-> "create", name |-> TempName(atts[di].id)]

\* the requests and file operations made while the loop was at index i
OpsAt(i) == SelectSeq(ops, LAMBDA o : o.idx = i)

\* C10: an attachment whose file exists with the declared size is skipped
\* with no request and no write; one whose file exists with another size
\* makes the run fail, the file being left as it was; a stat error other
\* than non-existence makes the run fail with that error, nothing being
\* downloaded for the attachment.
C10_ExistingFileVerification ==
    \A i \in 1..Len(statLog) :
        LET st == statLog[i]
            name == FinalName(atts[i].id) IN
        /\ st.kind = "exists" =>
              /\ OpsAt(i) = <<>>
              /\ name \in DOMAIN files /\ files[name] = st.size
              /\ IF st.size = atts[i].size
                 THEN di > i
                 ELSE /\ di = i /\ dret.returned /\ dret.from = "size"
                      /\ dret.err # <<>>
        /\ st.kind = "error" =>
              /\ OpsAt(i) = <<>>
              /\ di = i /\ dret.returned /\ dret.from = "stat"
              /\ dret.err = <<"stat">>
              /\ name \in DOMAIN files <=> name \in DOMAIN initFiles \cup {p.id : p \in produced}

C10_Witness ==
    /\ dret.returned /\ dret.from = "size"
    /\ Len(statLog) = 2
    /\ statLog[1].kind = "exists" /\ statLog[1].size = atts[1].size
    /\ statLog[2].kind = "exists" /\ statLog[2].size # atts[2].size

(***************************************************************************)
(* Properties of DownloadAttachments over whole runs                       *)
(***************************************************************************)
ListedIds == {atts[i].id : i \in 1..Len(atts)}

OpsOn(kind, name) == {k \in 1..Len(ops) : ops[k].op = kind /\ ops[k].name = name}

GetsFor(id) == Cardinality(OpsOn("get", id))

ReturnedNil == dret.returned /\ dret.err = <<>>

C12_ExactlyOnce ==
    /\ \A k \in 1..Len(ops) : ops[k].op = "get" => ops[k].name \in ListedIds
    /\ \A id \in ListedIds :
          /\ GetsFor(id) <= 1
          /\ (ReturnedNil /\ FinalName(id) \notin DOMAIN initFiles) => GetsFor(id) = 1
          /\ (\E i \in 1..Len(atts) :
                  /\ atts[i].id = id
                  /\ FinalName(id) \in DOMAIN initFiles
                  /\ initFiles[FinalName(id)] = atts[i].size) => GetsFor(id) = 0

\* a run over a list that names one identifier twice returned nil after
\* requesting that identifier once
C12_Witness ==
    /\ ReturnedNil
    /\ \E i, j \in 1..Len(atts) :
          i < j /\ atts[i].id = atts[j].id /\ GetsFor(atts[i].id) = 1

SortedById(l) == \A i \in 1..(Len(l) - 1) : ~StrLess(l[i + 1].id, l[i].id)

\* the attachment at index i is done with and did not fail: its file was
\* there with the declared size, or its download was renamed into place
Passed(i) ==
    /\ i <= Len(statLog)
    /\ \/ statLog[i].kind = "exists" /\ statLog[i].size = atts[i].size
       \/ /\ statLog[i].kind = "notexist"
          /\ \E k \in 1..Len(ops) : ops[k].idx = i /\ ops[k].op = "rename"

\* C13: a run over a missing directory or a non-directory fails before any
\* attachment is looked at.  Otherwise the attachments are taken one at a time
\* in ascending identifier order: every request and file operation belongs to
\* an attachment not beyond the current one, in index order; the loop moves
\* past an attachment only when it did not fail; and a run that returned an
\* error returned the error of the attachment it stopped at, with nothing
\* done for any later one.
C13_FirstErrorWins ==
    /\ (dirKind # "dir" /\ dpc # "start") =>
          /\ dpc = "done" /\ dret.returned /\ dret.err # <<>> /\ dret.from = "dir"
          /\ ops = <<>> /\ statLog = <<>>
    /\ (dirKind = "dir" /\ dpc # "start") =>
          /\ SortedById(atts)
          /\ dret.from # "dir"
          /\ Len(statLog) \in {di - 1, di}
          /\ \A k \in 1..Len(ops) :
                /\ ops[k].idx <= di
                /\ ops[k].name \in {FinalName(atts[ops[k].idx].id),
                                    TempName(atts[ops[k].idx].id)}
                /\ statLog[ops[k].idx].kind = "notexist"
                /\ k > 1 => ops[k - 1].idx <= ops[k].idx
          /\ \A i \in 1..(di - 1) : Passed(i)
          /\ (dret.returned /\ dret.err # <<>>) =>
                /\ di <= Len(atts) /\ Len(statLog) = di
                /\ dret.from = "stat" <=> statLog[di].kind = "error"
                /\ dret.from = "size" <=>
                      (statLog[di].kind = "exists" /\ statLog[di].size # atts[di].size)
                /\ dret.from = "download" <=> statLog[di].kind = "notexist"
                /\ dret.from = "download" => dret.err \in {<<"get">>, errOut}

\* a run stopped at the first of two attachments with different identifiers
C13_Witness ==
    /\ dret.returned /\ dret.err # <<>> /\ dret.from = "download"
    /\ di = 1 /\ Len(atts) >= 2
    /\ atts[1].id # atts[2].id
    /\ \E k \in 1..Len(ops) : ops[k].op = "write"

FileOps == {"create", "write", "close", "rename", "remove"}

\* the frame of a run: every file operation is on <Id> or TEMP.<Id> of a listed
\* identifier, and no temp name is a name a validated identifier could have
FrameKept ==
    /\ \A k \in 1..Len(ops) :
          ops[k].op \in FileOps =>
              \E id \in ListedIds : ops[k].name \in {id, StrTempDot \o id}
    /\ \A name \in DOMAIN files :
          name \notin DOMAIN initFiles \/ files[name] # initFiles[name] =>
              \E id \in ListedIds : name \in {id, StrTempDot \o id}
    /\ \A name \in DOMAIN initFiles :
          name \notin DOMAIN files =>
              \E id \in ListedIds : name \in {id, StrTempDot \o id}
    /\ \A id \in ListedIds :
          /\ ~IsAirTableId(TempName(id))
          /\ \A other \in AttIdPool : TempName(id) # FinalName(other)

\* C20, as the spec states it: when the run returns nil every listed attachment
\* has its file with the declared size and no TEMP.<Id> file is left for it;
\* and the frame is kept throughout.
C20_PostAndFrame ==
    /\ FrameKept
    /\ ReturnedNil =>
          \A i \in 1..Len(atts) :
              /\ FinalName(atts[i].id) \in DOMAIN files
              /\ files[FinalName(atts[i].id)] = atts[i].size
              /\ StrTempDot \o atts[i].id \notin DOMAIN files

\* C20, amended: when the run returns nil every listed attachment has its file
\* with the declared size, and a TEMP.<Id> file is left only if it was there
\* when the run started and the run requested no download of <Id>, in which
\* case it is untouched; and the frame is kept throughout.
C20_PostAndFrameOwnTemps ==
    /\ FrameKept
    /\ ReturnedNil =>
          \A i \in 1..Len(atts) :
              LET id == atts[i].id
                  temp == StrTempDot \o id IN
              /\ FinalName(id) \in DOMAIN files
              /\ files[FinalName(id)] = atts[i].size
              /\ temp \in DOMAIN files =>
                    /\ temp \in DOMAIN initFiles
                    /\ files[temp] = initFiles[temp]
                    /\ GetsFor(id) = 0
                    /\ FinalName(id) \in DOMAIN initFiles
              /\ GetsFor(id) = 1 => temp \notin DOMAIN files

\* a run returned nil after downloading an attachment over a stale temp file
\* and skipping another
C20_Witness ==
    /\ ReturnedNil /\ run = 1
    /\ \E i, j \in 1..Len(atts) :
          /\ GetsFor(atts[i].id) = 1
          /\ StrTempDot \o atts[i].id \in DOMAIN initFiles
          /\ atts[j].id # atts[i].id
          /\ GetsFor(atts[j].id) = 0

(***************************************************************************)
(* api.IsAirTableId as a function of its argument                          *)
(***************************************************************************)
\* bytes at and next to the ends of the three accepted ranges, the bytes the
\* test names (' ', ':', '^', '~'), a path separator, a dot, NUL and a byte
\* beyond ASCII
BytePool == {0, 32, 46, 47, 48, 57, 58, 64, 65, 90, 91, 94, 96, 97, 122, 123, 126, 200}

\* "fldpjJ6SlAbLkrapJ", the identifier of TestIsAirTableId
StrTestId == <<102, 108, 100, 112, 106, 74, 54, 83, 108, 65, 98, 76, 107, 114, 97, 112, 74>>

\* the arguments explored: every length up to MaxIdLen, filled with 'a' or
\* taken from the test identifier, with one byte replaced by a byte of the pool
IdInputs ==
    {<<>>} \cup
    { [i \in 1..n |-> IF i = p THEN c
                      ELSE IF fromTest /\ i <= Len(StrTestId) THEN StrTestId[i] ELSE 97] :
      n \in 1..MaxIdLen, p \in 1..MaxIdLen, c \in BytePool, fromTest \in BOOLEAN }

InitId ==
    /\ IdleExtract /\ IdleList /\ IdleDownload /\ IdleAttach /\ IdleMain
    /\ idArg \in IdInputs
    /\ idRes = [done |-> FALSE, ok |-> FALSE]

\* a call of IsAirTableId(idArg)
CheckId ==
    /\ ~idRes.done
    /\ idRes' = [done |-> TRUE, ok |-> IsAirTableId(idArg)]
    /\ UNCHANGED <<idArg, notId>>

NextId == CheckId

SpecId == InitId /\ [][NextId]_vars

AsciiDigits == 48..57
AsciiUpper == 65..90
AsciiLower == 97..122

\* C15: IsAirTableId(s) is true exactly when s has 17 bytes and each of them
\* is an ASCII letter or digit; a string with a space, a path separator,
\* punctuation or a byte beyond ASCII, or of another length, is rejected.
C15_IsAirTableId ==
    idRes.done =>
        /\ idRes.ok <=>
              /\ Len(idArg) = 17
              /\ \A i \in 1..Len(idArg) :
                    idArg[i] \in AsciiDigits \/ idArg[i] \in AsciiUpper \/ idArg[i] \in AsciiLower
        /\ (\E i \in 1..Len(idArg) :
                idArg[i] \in {0, 32, 46, 47, 58, 64, 91, 94, 96, 123, 126, 200}) => ~idRes.ok
        /\ Len(idArg) # 17 => ~idRes.ok

\* an identifier of letters of both cases and a digit was accepted
C15_Witness ==
    /\ idRes.done /\ idRes.ok
    /\ \E i, j, k \in 1..Len(idArg) :
          idArg[i] \in AsciiDigits /\ idArg[j] \in AsciiUpper /\ idArg[k] \in AsciiLower

(***************************************************************************)
(* ExtractAttachments / ExtractAttachment                                  *)
(***************************************************************************)
\* "https://v5.airtableusercontent.com/"
AttachmentLinkPrefix ==
    <<104, 116, 116, 112, 115, 58, 47, 47, 118, 53, 46, 97, 105, 114, 116, 97, 98,
      108, 101, 117, 115, 101, 114, 99, 111, 110, 116, 101, 110, 116, 46, 99, 111,
      109, 47>>

StrRec == <<114, 101, 99>>                       \* "rec"

\* the url values explored: no url key, a url that is not a string, a link
\* under the prefix, and "https://v5.airtableusercontent.com.x/f"
UrlPool ==
    { Absent, Other,
      Str(AttachmentLinkPrefix \o <<102>>),
      Str(SubSeq(AttachmentLinkPrefix, 1, 34) \o <<46, 120, 47, 102>>) }

\* the id values explored: no id key, an id that is not a string, the two
\* attachment identifiers, "recAAAAAAAAAAAAA1", "att/AAAAAAAAAAAA1" and "attA"
IdPool ==
    { Absent, Other, Str(StrAtt \o <<65>>),
      Str(StrRec \o Fill(65, 13) \o <<49>>),
      Str(StrAtt \o <<47>> \o Fill(65, 12) \o <<49>>) }
    \cup { Str(id) : id \in AttIdPool }

\* sizes in halves: -1.0 to MaxSize + 0.5 in steps of 0.5, and 42.0, 42.5
HalfPool == (-2..(2 * MaxSize + 1)) \cup {84, 85}

SizePool == { Absent, Other } \cup { Num(h) : h \in HalfPool }

\* the elements of a sequence-valued field
Items == { NotAMap } \cup [isMap : {TRUE}, url : UrlPool, id : IdPool, size : SizePool]

\* int64(size): conversion of a float64 truncates toward zero
Int64Of(h) == IF h >= 0 THEN h \div 2 ELSE -((-h) \div 2)

\* size == float64(int64(size)) (line 374, negated there)
SizeIsWhole(h) == 2 * Int64Of(h) = h

NoAttachment == [link |-> <<>>, id |-> <<>>, size |-> 0]

Panics == [found |-> FALSE, panic |-> TRUE, attachment |-> NoAttachment]

\* ExtractAttachment(itemMap): a failed type assertion panics like a failed check
ExtractAttachment(itemMap) ==
    IF itemMap.url.kind = "absent"
    THEN [found |-> FALSE, panic |-> FALSE, attachment |-> NoAttachment]
    ELSE IF itemMap.url.kind # "string" THEN Panics
    ELSE IF ~HasPrefix(itemMap.url.str, AttachmentLinkPrefix) THEN Panics
    ELSE IF itemMap.id.kind # "string" THEN Panics
    ELSE IF ~IsAirTableId(itemMap.id.str) \/ ~HasPrefix(itemMap.id.str, StrAtt) THEN Panics
    ELSE IF itemMap.size.kind # "number" THEN Panics
    ELSE IF ~SizeIsWhole(itemMap.size.half) THEN Panics
    ELSE [found |-> TRUE, panic |-> FALSE,
          attachment |-> [link |-> itemMap.url.str, id |-> itemMap.id.str,
                          size |-> Int64Of(itemMap.size.half)]]

InitAttach ==
    /\ IdleExtract /\ IdleList /\ IdleDownload /\ IdleId /\ IdleMain
    /\ xpc = "scan"
    /\ xn = 0
    /\ xlast = NotAMap
    /\ xatts = <<>>

\* one turn of the innermost loop of ExtractAttachments (lines 391-398)
X_Item ==
    /\ xpc = "scan" /\ xn < MaxItems
    /\ \E item \in Items :
          LET r == ExtractAttachment(item) IN
          /\ xlast' = item
          /\ xn' = xn + 1
          /\ xpc' = IF item.isMap /\ r.panic THEN "panicked" ELSE xpc
          /\ xatts' = IF item.isMap /\ ~r.panic /\ r.found
                      THEN Append(xatts, r.attachment) ELSE xatts
    /\ UNCHANGED notAttach

\* the loops are over: return attachments
X_Return ==
    /\ xpc = "scan"
    /\ xpc' = "done"
    /\ UNCHANGED <<xn, xlast, xatts, notAttach>>

NextAttach == X_Item \/ X_Return

SpecAttach == InitAttach /\ [][NextAttach]_vars

\* the element looked at last passes every check but that of its size
LastHasGoodUrlAndId ==
    /\ xn > 0 /\ xlast.isMap
    /\ xlast.url.kind = "string" /\ HasPrefix(xlast.url.str, AttachmentLinkPrefix)
    /\ xlast.id.kind = "string" /\ xlast.id.str \in AttIdPool
    /\ xlast.size.kind = "number"

\* C17: every extracted Attachment's size is a non-negative whole number; a
\* candidate is accepted only if its size is one (size 42.0 gives 42), and a
\* candidate with a fractional or a negative size makes the extraction fail.
C17_NonNegativeIntegral ==
    /\ \A i \in 1..Len(xatts) : xatts[i].size >= 0
    /\ LastHasGoodUrlAndId =>
          /\ (xlast.size.half < 0 \/ xlast.size.half % 2 # 0) => xpc = "panicked"
          /\ (xlast.size.half >= 0 /\ xlast.size.half % 2 = 0) =>
                /\ xpc # "panicked"
                /\ xatts # <<>>
                /\ 2 * xatts[Len(xatts)].size = xlast.size.half

(***************************************************************************)
(* Main and Backup.Save                                                    *)
(***************************************************************************)
\* the configurations Main is run with: one source, or two, of one table each
MainConfigs == { <<<<"tblX">>>>, <<<<"tblX">>, <<"tblY">>>> }

\* the elements Main's tables hold in their sequence-valued fields: something
\* that is not an object, an object without a url, two well-formed
\* attachments, and objects with a url outside the prefix, with an
\* identifier holding a '/', with an identifier that does not start with
\* "att", and with a fractional size
GoodItem(id, h) ==
    [isMap |-> TRUE, url |-> Str(AttachmentLinkPrefix \o <<102>>), id |-> Str(id),
     size |-> Num(h)]

Id1 == StrAtt \o Fill(65, 13) \o <<49>>
Id2 == StrAtt \o Fill(65, 13) \o <<50>>

MainItems ==
    { NotAMap,
      [isMap |-> TRUE, url |-> Absent, id |-> Str(Id1), size |-> Num(2)],
      GoodItem(Id1, 2),
      GoodItem(Id2, 0),
      [GoodItem(Id1, 2) EXCEPT !.url =
          Str(SubSeq(AttachmentLinkPrefix, 1, 34) \o <<46, 120, 47, 102>>)],
      GoodItem(StrAtt \o <<47>> \o Fill(65, 12) \o <<49>>, 2),
      GoodItem(StrRec \o Fill(65, 13) \o <<49>>, 2),
      GoodItem(Id2, 3) }

MainItemLists == UNION {[1..n -> MainItems] : n \in 0..MaxItems}

\* the download directories Main is run with: missing, empty, or holding the
\* first attachment already
MainDirListings == { EmptyMap, [name \in {FinalName(Id1)} |-> 1] }

\* ExtractAttachments over the elements in the order the loops meet them
RECURSIVE ScanItems(_, _)
ScanItems(items, acc) ==
    IF items = <<>>
    THEN [panic |-> FALSE, attachments |-> acc]
    ELSE LET item == Head(items)
             r == ExtractAttachment(item) IN
         IF ~item.isMap THEN ScanItems(Tail(items), acc)
         ELSE IF r.panic THEN [panic |-> TRUE, attachments |-> acc]
         ELSE ScanItems(Tail(items), IF r.found THEN Append(acc, r.attachment) ELSE acc)

ExtractAttachments(items) == ScanItems(items, <<>>)

InitMain ==
    /\ IdleExtract /\ IdleList /\ IdleDownload /\ IdleId /\ IdleAttach
    /\ mpc = "load"
    /\ mret = [returned |-> FALSE, err |-> <<>>]
    /\ mitems = <<>>
    /\ backup = <<>>
    /\ outFile \in {"absent", "old"}
    /\ prior = outFile
    /\ sret = [returned |-> FALSE, err |-> <<>>]
    /\ mlog = <<>>

MainReturned(e) == [returned |-> TRUE, err |-> e]

\* (mutant) Main goes on to the next stage whatever the last one returned
AfterStage_GoOn(err, next) == next

\* if err != nil { return err } after a stage of Main
AfterStage(err, next) == IF err # <<>> THEN "returned" ELSE next

\* config, err := loadConfig(configPath), and the call of ExtractAllTables
M_LoadConfig ==
    /\ mpc = "load"
    /\ \/ /\ mret' = MainReturned(<<"config">>)
          /\ mpc' = "returned"
          /\ UNCHANGED <<evars, mlog>>
       \/ /\ config' \in MainConfigs
          /\ cpc' = "spawn"
          /\ wpc' = [w \in DOMAIN config' |-> "idle"]
          /\ widx' = [w \in DOMAIN config' |-> 1]
          /\ wrecs' = [w \in DOMAIN config' |-> <<>>]
          /\ fetchLog' = [w \in DOMAIN config' |-> <<>>]
          /\ UNCHANGED <<wg, errChan, chanClosed, outputMap, mapWriters, raced,
                         allErrors, ret, crashed, keyWriters>>
          /\ mpc' = "tables"
          /\ mlog' = Append(mlog, "tables")
          /\ UNCHANGED mret
    /\ UNCHANGED <<mitems, backup, outFile, sret, prior, lvars, dvars, ivars, xvars>>

\* ExtractAllTables has returned: return its error, or build the Backup, which
\* calls ExtractAttachments(tables)
M_Attachments ==
    /\ mpc = "tables" /\ ret.returned
    /\ LET next == AfterStage(ret.err, "save_create") IN
       IF next = "returned"
       THEN /\ mret' = MainReturned(ret.err)
            /\ mpc' = "returned"
            /\ UNCHANGED <<mitems, backup, mlog>>
       ELSE \E items \in MainItemLists :
               LET r == ExtractAttachments(items) IN
               /\ ret.map = EmptyMap => items = <<>>
               /\ mitems' = items
               /\ mlog' = Append(mlog, "attachments")
               /\ mpc' = IF r.panic THEN "aborted" ELSE next
               /\ backup' = IF r.panic THEN backup ELSE r.attachments
               /\ UNCHANGED mret
    /\ UNCHANGED <<outFile, prior, sret, evars, lvars, dvars, ivars, xvars>>

\* output, err := os.Create(outputPath): creates the file or truncates it
S_Create ==
    /\ mpc = "save_create"
    /\ mlog' = Append(mlog, "create")
    /\ \/ /\ outFile' = "empty"
          /\ mpc' = "save_encode"
          /\ UNCHANGED sret
       \/ /\ sret' = [returned |-> TRUE, err |-> <<"create">>]
          /\ mpc' = "save_done"
          /\ UNCHANGED outFile
    /\ UNCHANGED <<mret, mitems, backup, prior, evars, lvars, dvars, ivars, xvars>>

\* (mutant) the file is left where it is
AfterRemove_Keep(file, removeOk) == file

\* what is at outputPath after os.Remove(outputPath)
AfterRemove(file, removeOk) == IF removeOk THEN "absent" ELSE file

\* encoder.Encode(b); when it fails, with none or some of the document
\* written, return multierror.Append(err, output.Close(), os.Remove(outputPath))
S_Encode ==
    /\ mpc = "save_encode"
    /\ \/ /\ outFile' = "complete"
          /\ mpc' = "save_close"
          /\ mlog' = Append(mlog, "encode")
          /\ UNCHANGED sret
       \/ \E written \in {"empty", "partial"}, closeOk \in BOOLEAN, removeOk \in BOOLEAN :
          /\ outFile' = AfterRemove(written, removeOk)
          /\ sret' = [returned |-> TRUE,
                      err |-> <<"encode">> \o (IF closeOk THEN <<>> ELSE <<"close">>)
                                          \o (IF removeOk THEN <<>> ELSE <<"remove">>)]
          /\ mpc' = "save_done"
          /\ mlog' = mlog \o <<"encode", "close", "remove">>
    /\ UNCHANGED <<mret, mitems, backup, prior, evars, lvars, dvars, ivars, xvars>>

\* output.Close(); when it fails, with the document flushed or not,
\* return multierror.Append(err, os.Remove(outputPath)); else return nil
S_Close ==
    /\ mpc = "save_close"
    /\ \/ /\ sret' = [returned |-> TRUE, err |-> <<>>]
          /\ mlog' = Append(mlog, "close")
          /\ UNCHANGED outFile
       \/ \E flushed \in {"partial", "complete"}, removeOk \in BOOLEAN :
          /\ outFile' = AfterRemove(flushed, removeOk)
          /\ sret' = [returned |-> TRUE,
                      err |-> <<"close">> \o (IF removeOk THEN <<>> ELSE <<"remove">>)]
          /\ mlog' = mlog \o <<"close", "remove">>
    /\ mpc' = "save_done"
    /\ UNCHANGED <<mret, mitems, backup, prior, evars, lvars, dvars, ivars, xvars>>

\* backup.Save has returned: return its error, or call DownloadAttachments
M_Download ==
    /\ mpc = "save_done" /\ sret.returned
    /\ LET next == AfterStage(sret.err, "download") IN
       IF next = "returned"
       THEN /\ mret' = MainReturned(sret.err)
            /\ mpc' = "returned"
            /\ UNCHANGED <<dvars, mlog>>
       ELSE /\ atts' = [i \in 1..Len(backup) |->
                           [id |-> backup[i].id, size |-> backup[i].size]]
            /\ dirKind' \in {"dir", "missing"}
            /\ files' \in MainDirListings
            /\ dirKind' # "dir" => files' = EmptyMap
            /\ initFiles' = files'
            /\ dpc' = "start"
            /\ UNCHANGED <<di, resp, copied, outOpen, needsClose, needsRemove, errOut,
                           dret, ops, statLog, produced, run, prevOps>>
            /\ mpc' = next
            /\ mlog' = Append(mlog, "download")
            /\ UNCHANGED mret
    /\ UNCHANGED <<mitems, backup, outFile, prior, sret, evars, lvars, ivars, xvars>>

\* return DownloadAttachments(...)
M_Return ==
    /\ mpc = "download" /\ dret.returned
    /\ mret' = MainReturned(dret.err)
    /\ mpc' = "returned"
    /\ UNCHANGED <<mitems, backup, outFile, prior, sret, mlog, evars, lvars, dvars, ivars, xvars>>

NextMain ==
    \/ M_LoadConfig
    \/ NextExtract
    \/ M_Attachments
    \/ S_Create
    \/ S_Encode
    \/ S_Close
    \/ M_Download
    \/ RunDownload
    \/ M_Return

SpecMain == InitMain /\ [][NextMain]_vars

(***************************************************************************)
(* Properties of Main, Backup.Save and the attachments they handle         *)
(***************************************************************************)
SaveFailedAfterCreate ==
    sret.returned /\ sret.err # <<>> /\ Head(sret.err) \in {"encode", "close"}

InLog(e) == \E k \in 1..Len(mlog) : mlog[k] = e

\* C14, as the spec states it: when Save returns an error because encoding or
\* closing failed, no file is at outputPath.
C14_SaveLeavesNothing ==
    SaveFailedAfterCreate => outFile = "absent"

\* C14, amended: when Save returns an error because encoding or closing
\* failed, no file is at outputPath unless os.Remove failed too; then that
\* failure is part of the returned error and the file Save created (empty,
\* partial or complete) is there in place of whatever was there before.
C14_SaveLeavesNothingUnlessRemoveFails ==
    SaveFailedAfterCreate =>
        /\ outFile # "old"
        /\ sret.err[Len(sret.err)] # "remove" => outFile = "absent"
        /\ sret.err[Len(sret.err)] = "remove" =>
              outFile \in (IF Head(sret.err) = "encode"
                           THEN {"empty", "partial"} ELSE {"partial", "complete"})
        /\ mret.returned => mret.err = sret.err
        /\ ~InLog("download")

\* Save failed while encoding over an earlier backup and left nothing
C14_Witness ==
    /\ sret.returned /\ sret.err = <<"encode">>
    /\ prior = "old" /\ outFile = "absent"
    /\ mret.returned

\* an identifier fit for a file name: 17 bytes, ASCII letters and digits,
\* "att" first
SafeAttId(id) ==
    /\ Len(id) = 17
    /\ \A i \in 1..Len(id) :
          id[i] \in AsciiDigits \/ id[i] \in AsciiUpper \/ id[i] \in AsciiLower
    /\ SubSeq(id, 1, 3) = StrAtt

HasUrl(item) == item.isMap /\ item.url.kind # "absent"

\* an element with a url key that fails the url check or the id check
Offending(item) ==
    /\ HasUrl(item)
    /\ ~ /\ item.url.kind = "string"
          /\ HasPrefix(item.url.str, AttachmentLinkPrefix)
          /\ item.id.kind = "string"
          /\ SafeAttId(item.id.str)

WithUrl(items) == SelectSeq(items, HasUrl)

\* C16: every Attachment of the Backup, and every attachment and file name
\* DownloadAttachments handles, has a link under the prefix and an identifier
\* of 17 ASCII letters and digits starting with "att"; once the tables hold an
\* element with a url key that fails a check the run is aborted with no
\* Attachment emitted, no backup file and no download; and in a run that
\* is not aborted every element with a url key became an Attachment.
C16_ValidatedAttachments ==
    /\ \A i \in 1..Len(backup) :
          /\ HasPrefix(backup[i].link, AttachmentLinkPrefix)
          /\ SafeAttId(backup[i].id)
    /\ \A i \in 1..Len(atts) : SafeAttId(atts[i].id)
    /\ \A k \in 1..Len(ops) :
          \E i \in 1..Len(atts) :
              ops[k].name \in {atts[i].id, StrTempDot \o atts[i].id}
    /\ dpc # "panicked"
    /\ (InLog("attachments") /\ \E i \in 1..Len(mitems) : Offending(mitems[i])) =>
          /\ mpc = "aborted"
          /\ backup = <<>> /\ atts = <<>>
          /\ ~InLog("create") /\ outFile = prior
          /\ dpc = "idle" /\ ops = <<>>
    /\ (InLog("attachments") /\ mpc # "aborted") =>
          LET candidates == WithUrl(mitems) IN
          /\ Len(backup) = Len(candidates)
          /\ \A i \in 1..Len(backup) :
                /\ backup[i].link = candidates[i].url.str
                /\ backup[i].id = candidates[i].id.str

\* a run downloaded an extracted attachment, and another run was aborted
\* over an identifier holding a '/'
C16_Witness ==
    /\ Len(mitems) >= 2 /\ Len(backup) >= 1
    /\ \E k \in 1..Len(ops) : ops[k].op = "rename" /\ ops[k].name = backup[1].id

C16_WitnessAbort ==
    /\ mpc = "aborted"
    /\ \E i \in 1..Len(mitems) :
          /\ Offending(mitems[i])
          /\ mitems[i].id.kind = "string" /\ Len(mitems[i].id.str) = 17

StageRank(e) ==
    CASE e = "tables" -> 1
      [] e = "attachments" -> 2
      [] e \in {"create", "encode", "close", "remove"} -> 3
      [] e = "download" -> 4

\* C18: the stages of Main are entered in the order extract tables, extract
\* attachments, save, download, each once and only after the one before it
\* succeeded; the backup file is not created when the extraction failed; no
\* download request or file operation happens unless Save returned nil with
\* the backup written; a failing download leaves the backup in place; and
\* Main returns the error of the stage that failed.
C18_PipelineOrder ==
    /\ \A j, k \in 1..Len(mlog) : j < k => StageRank(mlog[j]) <= StageRank(mlog[k])
    /\ \A j, k \in 1..Len(mlog) :
          (j # k /\ mlog[j] = mlog[k]) => mlog[j] \in {"close", "remove"}
    /\ InLog("attachments") =>
          InLog("tables") /\ ret.returned /\ ret.err = <<>> /\ ~crashed
    /\ InLog("create") => InLog("attachments") /\ mpc # "aborted"
    /\ InLog("download") =>
          /\ InLog("create")
          /\ sret.returned /\ sret.err = <<>>
          /\ outFile = "complete"
    /\ ~InLog("create") => outFile = prior
    /\ (dpc # "idle" \/ ops # <<>> \/ statLog # <<>>) => InLog("download")
    /\ (ret.returned /\ ret.err # <<>>) =>
          /\ ~InLog("attachments") /\ ~InLog("create") /\ ~InLog("download")
          /\ mret.returned => mret.err = ret.err
    /\ (sret.returned /\ sret.err # <<>>) =>
          /\ ~InLog("download")
          /\ mret.returned => mret.err = sret.err
    /\ (dret.returned /\ dret.err # <<>>) =>
          /\ outFile = "complete"
          /\ mret.returned => mret.err = dret.err
    /\ (mret.returned /\ mret.err = <<>>) =>
          /\ mlog[Len(mlog)] = "download"
          /\ dret.returned /\ dret.err = <<>>

\* Main returned the error of a download that failed after the backup over
\* an earlier one was written
C18_Witness ==
    /\ mret.returned /\ mret.err # <<>>
    /\ dret.returned /\ dret.err = mret.err /\ dret.from = "download"
    /\ prior = "old" /\ outFile = "complete"
    /\ Len(config) = 2

(***************************************************************************)
(* Termination of ExtractAllTables                                         *)
(***************************************************************************)
\* the goroutines are scheduled fairly: a step that stays possible is taken
FairSpecExtract == SpecExtract /\ WF_vars(NextExtract)

\* C19: each worker sends at most one error and the channel never holds more
\* than one error per source, so a worker at its send can always send; and
\* ExtractAllTables has returned or one of its goroutines can take a step,
\* which in these finite runs means that it returns in the end.
C19_AlwaysReturns ==
    /\ \A w \in Workers : Len(ErrorsFrom(w)) <= 1
    /\ Len(errChan) <= ChanCap
    /\ \A w \in Workers : wpc[w] = "send" => CanSend
    /\ ret.returned \/ ENABLED NextExtract

\* the same without the runs the runtime aborts: the error channel itself
\* never blocks a worker and never keeps the coordinator waiting
NoDeadlockUnlessAborted ==
    /\ \A w \in Workers : Len(ErrorsFrom(w)) <= 1
    /\ Len(errChan) <= ChanCap
    /\ \A w \in Workers : wpc[w] = "send" => CanSend
    /\ ret.returned \/ crashed \/ ENABLED NextExtract

\* under fair scheduling ExtractAllTables returns unless the runtime aborts
ReturnsUnlessAborted == <>(ret.returned \/ crashed)

\* every worker failed and ExtractAllTables returned
AllFailedAndReturned ==
    /\ ret.returned /\ Cardinality(Workers) >= 2
    /\ \A w \in Workers : Failed(w)

====
